---------------------------- MODULE Spec2Model ----------------------------
(***************************************************************************)
(* A model of the health-dashboard data pipeline: the Loader               *)
(* (src/src/data_loader.py), the Cleaner (src/src/data_cleaner.py), the    *)
(* Analyzer (src/src/data_analysis.py) and the Store                       *)
(* (src/src/data_storage.py).                                              *)
(*                                                                         *)
(* Text is a sequence of one-character strings, so that the regular        *)
(* expression of the Cleaner and the case folding of the Analyzer are      *)
(* computed character by character.  Numbers are exact rationals n/d in    *)
(* lowest terms (the floating-point rounding of a mean is not modelled).   *)
(***************************************************************************)
EXTENDS Integers, Sequences, FiniteSets, TLC

VARIABLES
    cIn,      \* Cleaner: the argument df of clean_health_data, as it was at the call
    cArg,     \* Cleaner: the caller's table, the object that was passed as df
    cOut,     \* Cleaner: the outcome of clean_health_data(cIn)
    cOut2,    \* Cleaner: the outcome of clean_health_data on the first result
    cpc,      \* Cleaner: "start", "cleaned", "recleaned"
    aIn,      \* Analyzer: the table df
    aCol,     \* Analyzer: the argument column of filter_data
    aVal,     \* Analyzer: the argument value of filter_data
    aDcol,    \* Analyzer: the argument column of calculate_stats
    aOut,     \* Analyzer: the outcome of filter_data(aIn, aCol, aVal)
    aStat,    \* Analyzer: the outcome of calculate_stats(aIn, aDcol)
    aStatF,   \* Analyzer: the outcome of calculate_stats on the filtered table
    aOrder,   \* Analyzer: an order of the rows of aIn
    aStatR,   \* Analyzer: the outcome of calculate_stats on aIn in that order
    apc,      \* Analyzer: the calls made so far
    lgFs,     \* Logger: what each path of the file system holds
    lgLogger, \* Logger: the logger 'HealthDashboard' of the process
    lgSetups, \* Logger: the setup_logger calls made, each with its outcome
    lgLast,   \* Logger: the last call and what it wrote
    lgNow,    \* Logger: the clock, in seconds
    files,    \* Store: the tables of each database file, by table name
    memdb,    \* Store: the tables of the private database of an open ':memory:' connection
    openConns,\* Store: the database connections that are open
    spc,      \* Store: where the running save or fetch call stands ("idle": none runs)
    sarg,     \* Store: the arguments of the running call
    sconn,    \* Store: the local variable conn of the running call
    sret,     \* Store: what the running call is about to return, and what it met
    slast,    \* Store: the last completed call and its outcome
    srun,     \* Store: the successful saves under one name that came last
    fs,       \* Loader: what each path of the file system holds
    lpc,      \* Loader: where the running load call stands ("idle": none runs)
    larg,     \* Loader: the path of the running call
    llast,    \* Loader: the last completed call and its outcome
    pv,       \* Pipeline: the result of the last stage that returned a table or None
    pstat,    \* Pipeline: the result of the last calculate_stats stage
    perr,     \* Pipeline: the exception that reached the caller ("": none)
    pstage,   \* Pipeline: the stage that ran last
    plen,     \* Pipeline: the stages run so far
    pwait     \* Pipeline: the Store call the caller waits for ("": none)

cleanerVars == <<cIn, cArg, cOut, cOut2, cpc>>
storeVars == <<files, memdb, openConns, spc, sarg, sconn, sret, slast, srun>>
loaderVars == <<fs, lpc, larg, llast>>
pipeVars == <<pv, pstat, perr, pstage, plen, pwait>>
analyzerVars == <<aIn, aCol, aVal, aDcol, aOut, aStat, aStatF, aOrder, aStatR, apc>>
loggerVars == <<lgFs, lgLogger, lgSetups, lgLast, lgNow>>
vars == <<cleanerVars, storeVars, loaderVars, pipeVars, analyzerVars, loggerVars>>

\* What the actions of one component leave alone.
notCleaner == <<storeVars, loaderVars, pipeVars, analyzerVars, loggerVars>>
notStore == <<cleanerVars, loaderVars, pipeVars, analyzerVars, loggerVars>>
notLoader == <<cleanerVars, storeVars, pipeVars, analyzerVars, loggerVars>>
notStoreNorPipe == <<cleanerVars, loaderVars, analyzerVars, loggerVars>>
notAnalyzer == <<cleanerVars, storeVars, loaderVars, pipeVars, loggerVars>>
notLogger == <<cleanerVars, storeVars, loaderVars, pipeVars, analyzerVars>>

---------------------------------------------------------------------------
(* Bounds of the model. *)

MaxNameLen == 5
MaxRows == 3
MaxStages == 4
MaxStatRows == 3
MaxLogCalls == 4
MaxTime == 1
\* The significant bits a float keeps (float64 keeps 53; the arithmetic below rounds
\* as float64 does, to nearest, ties to even, at this width).
MantissaBits == 8

---------------------------------------------------------------------------
(* Text. *)

NL == "\n"
Whitespace == {" ", NL}
Alphabet == {"a", " ", "[", "]", NL}

RECURSIVE StringsUpTo(_, _)
StringsUpTo(chars, n) ==
    IF n = 0 THEN {<<>>}
    ELSE LET shorter == StringsUpTo(chars, n - 1)
         IN  shorter \cup {Append(s, c) : s \in {t \in shorter : Len(t) = n - 1}, c \in chars}

---------------------------------------------------------------------------
(* Cells, columns, tables. *)

\* A missing float (numpy NaN).
NaN == [k |-> "nan", n |-> 0, d |-> 1, s |-> <<>>]
\* A missing object (Python None, what a SQL NULL reads back as).
NoneCell == [k |-> "none", n |-> 0, d |-> 1, s |-> <<>>]
Num(n, d) == [k |-> "num", n |-> n, d |-> d, s |-> <<>>]
Str(s) == [k |-> "str", n |-> 0, d |-> 1, s |-> s]

IsNa(c) == c.k \in {"nan", "none"}

\* A column: its label, its dtype ("int64", "float64" or "object") and its cells.
\* Only a float64 or an object column can hold a missing cell.
Column(name, dtype, cells) == [name |-> name, dtype |-> dtype, cells |-> cells]

\* select_dtypes(include=['number'])
IsNumeric(dtype) == dtype \in {"int64", "float64"}

DataFrame(nrows, cols) == [tag |-> "DataFrame", nrows |-> nrows, cols |-> cols]
\* pd.DataFrame(): no rows, no columns.
EmptyFrame == DataFrame(0, <<>>)
\* Python's None, where a DataFrame is expected.
NoneVal == [tag |-> "None", nrows |-> 0, cols |-> <<>>]

\* DataFrame.empty: true when any axis has length 0.
IsEmpty(df) == df.nrows = 0 \/ Len(df.cols) = 0

ColumnNames(df) == {df.cols[i].name : i \in 1..Len(df.cols)}

\* An outcome of a call: the value returned, or the exception that reached the caller.
Returned(v) == [raised |-> "", val |-> v]
Raised(e) == [raised |-> e, val |-> NoneVal]

---------------------------------------------------------------------------
(* Rationals. *)

Abs(x) == IF x < 0 THEN -x ELSE x

RECURSIVE Gcd(_, _)
Gcd(a, b) == IF b = 0 THEN a ELSE Gcd(b, a % b)

Rat(n, d) == LET g == Gcd(Abs(n), d) IN Num(n \div g, d \div g)
RatAdd(x, y) == Rat(x.n * y.d + y.n * x.d, x.d * y.d)

---------------------------------------------------------------------------
(* Floating point: the result of an operation is the exact result rounded to  *)
(* the nearest number of MantissaBits significant bits, ties to the even one. *)

RECURSIVE Pow2(_)
Pow2(k) == IF k = 0 THEN 1 ELSE 2 * Pow2(k - 1)

\* n/d scaled by 2^(-e), as a pair of whole numbers.
Scaled(n, d, e) ==
    IF e < 0 THEN [num |-> n * Pow2(-e), den |-> d] ELSE [num |-> n, den |-> d * Pow2(e)]

\* The exponent e of the last significant bit of n/d > 0: n/d scaled by 2^(-e)
\* lies between 2^(MantissaBits-1) and 2^MantissaBits.
ExponentOf(n, d) ==
    CHOOSE e \in -(MantissaBits + 3)..(MantissaBits + 3) :
        LET q == Scaled(n, d, e)
        IN  /\ Pow2(MantissaBits - 1) * q.den <= q.num
            /\ q.num < Pow2(MantissaBits) * q.den

\* n/d > 0 rounded to MantissaBits significant bits, ties to even.
RoundPositive(n, d) ==
    LET e == ExponentOf(n, d)
        q == Scaled(n, d, e)
        m == q.num \div q.den
        r == q.num % q.den
        up == 2 * r > q.den \/ (2 * r = q.den /\ m % 2 = 1)
        mant == IF up THEN m + 1 ELSE m
    IN  IF e < 0 THEN Rat(mant, Pow2(-e)) ELSE Num(mant * Pow2(e), 1)

\* The float nearest to the rational x.
RoundFloat(x) ==
    IF x.n = 0 THEN Num(0, 1)
    ELSE IF x.n > 0 THEN RoundPositive(x.n, x.d)
    ELSE LET r == RoundPositive(-x.n, x.d) IN Num(-r.n, r.d)

\* x + y and x / k in floating point (k a whole number, k > 0).
FloatAdd(x, y) == RoundFloat(RatAdd(x, y))
FloatDiv(x, k) == RoundFloat(Rat(x.n, x.d * k))

---------------------------------------------------------------------------
(* Cleaner: src/src/data_cleaner.py. *)

\* The first index at or after i of s that holds no whitespace (the greedy \s*).
RECURSIVE SkipSpace(_, _)
SkipSpace(s, i) ==
    IF i <= Len(s) /\ s[i] \in Whitespace THEN SkipSpace(s, i + 1) ELSE i

\* The lazy .*?\] from index i: the index of the first "]" that only characters
\* other than a line break separate from i (Python's "." matches no line break),
\* or 0 when there is none.
RECURSIVE FindClose(_, _)
FindClose(s, i) ==
    IF i > Len(s) THEN 0
    ELSE IF s[i] = "]" THEN i
    ELSE IF s[i] = NL THEN 0
    ELSE FindClose(s, i + 1)

\* The pattern \s*\[.*?\]\s* tried at index i: the index after the match, or 0.
MatchEnd(s, i) ==
    LET open == SkipSpace(s, i)
    IN  IF open <= Len(s) /\ s[open] = "["
        THEN LET close == FindClose(s, open + 1)
             IN  IF close = 0 THEN 0 ELSE SkipSpace(s, close + 1)
        ELSE 0

\* re.sub of the pattern by '' from index i: leftmost matches, left to right.
RECURSIVE RegexRemove(_, _)
RegexRemove(s, i) ==
    IF i > Len(s) THEN <<>>
    ELSE LET e == MatchEnd(s, i)
         IN  IF e # 0 THEN RegexRemove(s, e)
             ELSE <<s[i]>> \o RegexRemove(s, i + 1)

\* str.strip(): leading and trailing whitespace removed.
RECURSIVE StripRight(_)
StripRight(s) ==
    IF s # <<>> /\ s[Len(s)] \in Whitespace
    THEN StripRight(SubSeq(s, 1, Len(s) - 1)) ELSE s

Strip(s) == StripRight(SubSeq(s, SkipSpace(s, 1), Len(s)))

\* columns.str.replace(r'\s*\[.*?\]\s*', '', regex=True).str.strip(), one name.
NormalizeName(s) == Strip(RegexRemove(s, 1))

RenameColumns(df) ==
    DataFrame(df.nrows,
              [i \in 1..Len(df.cols) |->
                  Column(NormalizeName(df.cols[i].name), df.cols[i].dtype, df.cols[i].cells)])

\* A plausible slip: the rows counted, the missing cells included (len(series)).
SeriesCountRows(cells) == Len(cells)

\* Series.count(): the cells that are not missing.
SeriesCount(cells) == Cardinality({i \in 1..Len(cells) : ~IsNa(cells[i])})

\* The cells added to acc one after the other, from the first row on; a missing
\* cell adds nothing (skipna).
RECURSIVE SumFrom(_, _)
SumFrom(acc, cells) ==
    IF cells = <<>> THEN acc
    ELSE IF IsNa(Head(cells)) THEN SumFrom(acc, Tail(cells))
    ELSE SumFrom(FloatAdd(acc, Head(cells)), Tail(cells))

\* The sum of the cells that are not missing.
SeriesSum(cells) == SumFrom(Num(0, 1), cells)

\* A plausible slip: the mean taken over the rows, missing ones included.
SeriesMeanOverRows(cells) ==
    IF SeriesCount(cells) = 0 THEN NaN
    ELSE FloatDiv(SeriesSum(cells), Len(cells))

\* Series.mean() of a numeric column: the sum divided by the count, NaN when
\* every cell is missing.
SeriesMean(cells) ==
    IF SeriesCount(cells) = 0 THEN NaN
    ELSE FloatDiv(SeriesSum(cells), SeriesCount(cells))

\* Series.fillna(v).
SeriesFillna(cells, v) ==
    [i \in 1..Len(cells) |-> IF IsNa(cells[i]) THEN v ELSE cells[i]]

\* The value that fills a numeric column: its mean, or 0 when the mean is NaN.
FillValue(cells) ==
    IF IsNa(SeriesMean(cells)) THEN Num(0, 1) ELSE SeriesMean(cells)

\* The loop over select_dtypes(include=['number']).
FillNumeric(df) ==
    DataFrame(df.nrows,
              [i \in 1..Len(df.cols) |->
                  IF IsNumeric(df.cols[i].dtype)
                  THEN Column(df.cols[i].name, df.cols[i].dtype,
                              SeriesFillna(df.cols[i].cells, FillValue(df.cols[i].cells)))
                  ELSE df.cols[i]])

Unknown == <<"U", "n", "k", "n", "o", "w", "n">>

\* A plausible slip: the catch-all fill left out (the docstring lists no step 3).
FillUnknownLeftOut(df) == df

\* clean_df.fillna("Unknown"): every cell still missing, in any column.
FillUnknown(df) ==
    DataFrame(df.nrows,
              [i \in 1..Len(df.cols) |->
                  Column(df.cols[i].name, df.cols[i].dtype,
                         SeriesFillna(df.cols[i].cells, Str(Unknown)))])

\* The columns that carry the label of column i.
SameLabel(df, i) == {j \in 1..Len(df.cols) : df.cols[j].name = df.cols[i].name}

\* The numeric columns whose label another column carries too: clean_df[col] is
\* then a frame, not a series.
DuplicatedNumeric(df) ==
    {i \in 1..Len(df.cols) : IsNumeric(df.cols[i].dtype) /\ Cardinality(SameLabel(df, i)) > 1}

\* What the loop raises at the first numeric column with a duplicated label: the
\* mean of a frame with a textual column is a TypeError; the mean of an
\* all-numeric frame is a series, and `if pd.isna(series)` is a ValueError.
CollisionError(df) ==
    LET first == CHOOSE i \in DuplicatedNumeric(df) : \A j \in DuplicatedNumeric(df) : i <= j
    IN  IF \E j \in SameLabel(df, first) : ~IsNumeric(df.cols[j].dtype)
        THEN "TypeError" ELSE "ValueError"

\* A plausible slip: clean_df = df, the working frame is the caller's object.
DfAlias(df) == [sameObject |-> TRUE, val |-> df]

\* clean_df = df.copy(): the working frame is a new object with the content of df.
DfCopy(df) == [sameObject |-> FALSE, val |-> df]

\* The working frame when clean_health_data(df) returns or raises: df itself when
\* it is empty, the renamed frame when the numeric loop raises, else the result.
WorkingFrameAtExit(df) ==
    IF IsEmpty(df) THEN df
    ELSE IF DuplicatedNumeric(RenameColumns(df)) # {} THEN RenameColumns(df)
    ELSE FillUnknown(FillNumeric(RenameColumns(df)))

\* The caller's table after clean_health_data(df): every assignment of the
\* function is made to the working frame.
ArgAfterClean(df) ==
    IF df.tag = "DataFrame" /\ DfCopy(df).sameObject THEN WorkingFrameAtExit(df) ELSE df

\* clean_health_data(df).
CleanHealthData(df) ==
    IF df.tag = "None" THEN Raised("AttributeError")
    ELSE IF IsEmpty(df) THEN Returned(df)
    ELSE IF DuplicatedNumeric(RenameColumns(df)) # {}
         THEN Raised(CollisionError(RenameColumns(df)))
    ELSE Returned(FillUnknown(FillNumeric(RenameColumns(df))))

---------------------------------------------------------------------------
(* The tables the Cleaner is run on. *)

Names == StringsUpTo(Alphabet, MaxNameLen)

IntCells == {Num(1, 1), Num(2, 1)}
FloatCells == {NaN} \cup IntCells
ObjCells == {NaN, Str(<<"x">>)}

ColumnsOf(name, r) ==
    {Column(name, "float64", cells) : cells \in [1..r -> FloatCells]}
        \cup {Column(name, "int64", cells) : cells \in [1..r -> IntCells]}
        \cup {Column(name, "object", cells) : cells \in [1..r -> ObjCells]}

\* One textual column under every name, with no row or one row.
NameTables ==
    {DataFrame(r, <<Column(name, "object", [i \in 1..r |-> Str(<<"x">>)])>>) :
        name \in Names, r \in 0..1}

NamePairs ==
    { <<(<<"a">>), (<<"b">>)>>,
      <<(<<"a", " ", "[", "n", "]">>), (<<"b">>)>>,
      <<(<<"a", "[", "1", "]">>), (<<"a", "[", "2", "]">>)>>,
      <<(<<"a">>), (<<"a", "[", "n", "]">>)>> }

\* Two columns of either type, every pattern of missing cells.
CellTables ==
    UNION {{DataFrame(r, <<c1, c2>>) :
                c1 \in ColumnsOf(p[1], r), c2 \in ColumnsOf(p[2], r)} :
           p \in NamePairs, r \in 0..MaxRows}

AreaName == <<"A", "r", "e", "a", " ", "N", "a", "m", "e">>
AreaType == <<"A", "r", "e", "a", " ", "T", "y", "p", "e">>
AreaTypeNote3 == AreaType \o <<" ", "[", "N", "o", "t", "e", " ", "3", "]">>
Y2015 == <<"2", "0", "1", "5">>
CityA == <<"C", "i", "t", "y", " ", "A">>
CityB == <<"C", "i", "t", "y", " ", "B">>
LTLA == <<"L", "T", "L", "A">>
Region == <<"R", "e", "g", "i", "o", "n">>

\* The frame of tests/test_cleaner.py, setUp (without its complete column 2016).
DirtyFrame ==
    DataFrame(2, <<Column(AreaName, "object", <<Str(CityA), Str(CityB)>>),
                   Column(AreaTypeNote3, "object", <<Str(LTLA), Str(Region)>>),
                   Column(Y2015, "float64", <<Num(100, 1), NaN>>)>>)

\* The same header over no row: a file that holds only its header line.
HeaderOnlyFrame ==
    DataFrame(0, <<Column(AreaName, "object", <<>>),
                   Column(AreaTypeNote3, "object", <<>>),
                   Column(Y2015, "object", <<>>)>>)

CleanInputs == NameTables \cup CellTables \cup {EmptyFrame, DirtyFrame, HeaderOnlyFrame}

Pending == [raised |-> "pending", val |-> NoneVal]

CleanerIdle ==
    /\ cIn = EmptyFrame
    /\ cArg = EmptyFrame
    /\ cOut = Pending
    /\ cOut2 = Pending
    /\ cpc = "off"

CleanerInit ==
    /\ cIn \in CleanInputs
    /\ cArg = cIn
    /\ cOut = Pending
    /\ cOut2 = Pending
    /\ cpc = "start"

\* cleaned = clean_health_data(df)
Clean ==
    /\ cpc = "start"
    /\ cOut' = CleanHealthData(cIn)
    /\ cArg' = ArgAfterClean(cIn)
    /\ cpc' = "cleaned"
    /\ UNCHANGED <<cIn, cOut2>>
    /\ UNCHANGED notCleaner

\* clean_health_data(cleaned), when the first call returned
CleanAgain ==
    /\ cpc = "cleaned"
    /\ cOut.raised = ""
    /\ cOut2' = CleanHealthData(cOut.val)
    /\ cpc' = "recleaned"
    /\ UNCHANGED <<cIn, cArg, cOut>>
    /\ UNCHANGED notCleaner

CleanerNext == Clean \/ CleanAgain

---------------------------------------------------------------------------
(* Analyzer: src/src/data_analysis.py. *)

UpperCase == <<"A", "B", "C", "D", "E", "F", "G", "H", "I", "J", "K", "L", "M",
               "N", "O", "P", "Q", "R", "S", "T", "U", "V", "W", "X", "Y", "Z">>
LowerCase == <<"a", "b", "c", "d", "e", "f", "g", "h", "i", "j", "k", "l", "m",
               "n", "o", "p", "q", "r", "s", "t", "u", "v", "w", "x", "y", "z">>

LowerChar(c) ==
    IF \E i \in 1..Len(UpperCase) : UpperCase[i] = c
    THEN LowerCase[CHOOSE i \in 1..Len(UpperCase) : UpperCase[i] = c]
    ELSE c

\* str.lower()
Lower(s) == [i \in 1..Len(s) |-> LowerChar(s[i])]

DigitChars == <<"0", "1", "2", "3", "4", "5", "6", "7", "8", "9">>

\* str(n) of a whole number.
RECURSIVE Digits(_)
Digits(n) ==
    IF n < 0 THEN <<"-">> \o Digits(-n)
    ELSE IF n < 10 THEN <<DigitChars[n + 1]>>
    ELSE Digits(n \div 10) \o <<DigitChars[(n % 10) + 1]>>

\* astype(str) of one cell: text as it is, a missing float "nan", None "None", a
\* whole number of an int64 column its digits, a float its shortest repr (a whole
\* float ends in ".0", a half in ".5"; a float with a longer expansion is given
\* as "n/d", which no search value of the model equals).
Stringify(cell, dtype) ==
    CASE cell.k = "str" -> cell.s
      [] cell.k = "nan" -> <<"n", "a", "n">>
      [] cell.k = "none" -> <<"N", "o", "n", "e">>
      [] cell.k = "num" /\ dtype = "int64" -> Digits(cell.n)
      [] cell.k = "num" /\ dtype # "int64" /\ cell.d = 1 -> Digits(cell.n) \o <<".", "0">>
      [] cell.k = "num" /\ dtype # "int64" /\ cell.d = 2 /\ cell.n > 0 ->
            Digits(cell.n \div 2) \o <<".", "5">>
      [] OTHER -> Digits(cell.n) \o <<"/">> \o Digits(cell.d)

ColumnIndex(df, column) == CHOOSE i \in 1..Len(df.cols) : df.cols[i].name = column

\* A plausible slip: the cells are compared as they are, the case included.
RowMatchesCase(cell, dtype, value) ==
    IF value.k = "str" THEN Stringify(cell, dtype) = value.s
    ELSE cell.k = "num" /\ cell.n * value.d = value.n * cell.d

\* mask = df[column].astype(str).str.lower() == value.lower()   (value a str)
\* mask = df[column] == value                                    (value a number)
RowMatches(cell, dtype, value) ==
    IF value.k = "str" THEN Lower(Stringify(cell, dtype)) = Lower(value.s)
    ELSE cell.k = "num" /\ cell.n * value.d = value.n * cell.d

\* The rows of the mask, in their order.
RECURSIVE KeptRows(_, _, _, _)
KeptRows(col, value, j, n) ==
    IF j > n THEN <<>>
    ELSE (IF RowMatches(col.cells[j], col.dtype, value) THEN <<j>> ELSE <<>>)
            \o KeptRows(col, value, j + 1, n)

\* A plausible slip: the mask is not applied and every row is returned.
TakeAllRows(df, rows) == df

\* df[mask]: the rows kept, every column, the dtypes as they were.
TakeRows(df, rows) ==
    DataFrame(Len(rows),
              [i \in 1..Len(df.cols) |->
                  Column(df.cols[i].name, df.cols[i].dtype,
                         [k \in 1..Len(rows) |-> df.cols[i].cells[rows[k]]])])

\* A plausible slip: no check that the column exists; df[column] raises KeyError.
FilterDataUnchecked(df, column, value) ==
    IF df.tag = "None" THEN Raised("AttributeError")
    ELSE IF IsEmpty(df) THEN Returned(EmptyFrame)
    ELSE IF column \notin ColumnNames(df) THEN Raised("KeyError")
    ELSE Returned(TakeRows(df, KeptRows(df.cols[ColumnIndex(df, column)], value, 1, df.nrows)))

\* filter_data(df, column, value); the tables of the model carry no label twice
\* when they reach it.
FilterData(df, column, value) ==
    IF df.tag = "None" THEN Raised("AttributeError")
    ELSE IF IsEmpty(df) THEN Returned(EmptyFrame)
    ELSE IF column \notin ColumnNames(df) THEN Returned(EmptyFrame)
    ELSE Returned(TakeRows(df, KeptRows(df.cols[ColumnIndex(df, column)], value, 1, df.nrows)))

RatLess(x, y) == x.n * y.d < y.n * x.d

PresentCells(cells) == {cells[j] : j \in {i \in 1..Len(cells) : ~IsNa(cells[i])}}

\* Series.min() and Series.max(): over the cells that are not missing, NaN when
\* there is none.
SeriesMin(cells) ==
    IF PresentCells(cells) = {} THEN NaN
    ELSE CHOOSE x \in PresentCells(cells) : \A y \in PresentCells(cells) : ~RatLess(y, x)

SeriesMax(cells) ==
    IF PresentCells(cells) = {} THEN NaN
    ELSE CHOOSE x \in PresentCells(cells) : \A y \in PresentCells(cells) : ~RatLess(x, y)

\* None, where a dict of statistics is expected.
NoStats == [none |-> TRUE]
\* The dict {'mean': ..., 'min': ..., 'max': ..., 'count': ...}.
Stats(mean, min, max, count) ==
    [mean |-> mean, min |-> min, max |-> max, count |-> count]

StatsReturned(v) == [raised |-> "", stats |-> v]
StatsRaised(e) == [raised |-> e, stats |-> NoStats]

\* A plausible slip: no try block around the computation; the TypeError of the
\* mean of a column that holds text reaches the caller.
CalculateStatsNoTry(df, column) ==
    IF df.tag = "None" THEN StatsRaised("AttributeError")
    ELSE IF IsEmpty(df) THEN StatsReturned(NoStats)
    ELSE IF column \notin ColumnNames(df) THEN StatsReturned(NoStats)
    ELSE LET cells == df.cols[ColumnIndex(df, column)].cells
         IN  IF \E j \in 1..Len(cells) : cells[j].k = "str"
             THEN StatsRaised("TypeError")
             ELSE StatsReturned(Stats(SeriesMean(cells), SeriesMin(cells),
                                      SeriesMax(cells), SeriesCount(cells)))

\* calculate_stats(df, column): the mean of a column that holds text raises inside
\* the try block, and the handler returns None.
CalculateStats(df, column) ==
    IF df.tag = "None" THEN StatsRaised("AttributeError")
    ELSE IF IsEmpty(df) THEN StatsReturned(NoStats)
    ELSE IF column \notin ColumnNames(df) THEN StatsReturned(NoStats)
    ELSE LET cells == df.cols[ColumnIndex(df, column)].cells
         IN  IF \E j \in 1..Len(cells) : cells[j].k = "str"
             THEN StatsReturned(NoStats)
             ELSE StatsReturned(Stats(SeriesMean(cells), SeriesMin(cells),
                                      SeriesMax(cells), SeriesCount(cells)))

---------------------------------------------------------------------------
(* Store: src/src/data_storage.py. *)

\* The database identifiers: the in-memory one of the tests, a file, and a path
\* under a directory that does not exist (sqlite3.connect fails on it).
MemoryDb == ":memory:"
FileDb == "health.db"
UnopenableDb == "/no/such/dir/health.db"
FileDbs == {FileDb}
DbNames == {MemoryDb, FileDb, UnopenableDb}

\* Table names: two plain identifiers and one that SQL reads only when quoted.
HealthData == <<"h", "_", "d">>
HyphenTable == <<"t", "-", "d">>
IdentChars == {"h", "d", "t", "_"}
TableNames == {HealthData, HyphenTable}

\* A SQL NULL.
Null == [k |-> "null", n |-> 0, d |-> 1, s |-> <<>>]

SqlTable(nrows, cols) == [tag |-> "Table", nrows |-> nrows, cols |-> cols]
NoTable == [tag |-> "NoTable", nrows |-> 0, cols |-> <<>>]
EmptyDatabase == [name \in TableNames |-> NoTable]

\* The column type to_sql declares for a dtype.
SqlType(dtype) ==
    IF dtype = "int64" THEN "INTEGER" ELSE IF dtype = "float64" THEN "REAL" ELSE "TEXT"

\* The rows DataFrame.to_sql(index=False) writes: a missing cell becomes NULL.
ToSqlBody(df) ==
    SqlTable(df.nrows,
             [i \in 1..Len(df.cols) |->
                 [name |-> df.cols[i].name,
                  decl |-> SqlType(df.cols[i].dtype),
                  cells |-> [j \in 1..df.nrows |->
                                IF IsNa(df.cols[i].cells[j]) THEN Null
                                ELSE df.cols[i].cells[j]]]])

\* The table to_sql creates before it inserts any row.
CreatedBody(df) ==
    SqlTable(0, [i \in 1..Len(df.cols) |->
                    [name |-> df.cols[i].name, decl |-> SqlType(df.cols[i].dtype),
                     cells |-> <<>>]])

\* pd.read_sql of one column: the types are inferred from the values again.  A
\* column of NULLs only (or of no row) comes back as objects, None for NULL; a
\* column of numbers as numbers (int64 when they were stored as INTEGER and none
\* is NULL, float64 otherwise), NaN for NULL; any other as objects.
ReadColumn(col) ==
    IF \A j \in 1..Len(col.cells) : col.cells[j].k = "null"
    THEN Column(col.name, "object", [j \in 1..Len(col.cells) |-> NoneCell])
    ELSE IF \A j \in 1..Len(col.cells) : col.cells[j].k = "num"
    THEN Column(col.name, IF col.decl = "INTEGER" THEN "int64" ELSE "float64", col.cells)
    ELSE IF \A j \in 1..Len(col.cells) : col.cells[j].k \in {"num", "null"}
    THEN Column(col.name, "float64",
                [j \in 1..Len(col.cells) |->
                    IF col.cells[j].k = "null" THEN NaN ELSE col.cells[j]])
    ELSE Column(col.name, "object",
                [j \in 1..Len(col.cells) |->
                    IF col.cells[j].k = "null" THEN NoneCell ELSE col.cells[j]])

\* pd.read_sql("SELECT * FROM t", conn).
ReadSql(body) ==
    DataFrame(body.nrows, [i \in 1..Len(body.cols) |-> ReadColumn(body.cols[i])])

\* sqlite3.connect(db_name) succeeds.
Openable(db) == db # UnopenableDb

\* The database a connection to db works on: ':memory:' is a new, empty database
\* for every connection, gone when the connection closes.
DbView(db) == IF db = MemoryDb THEN memdb ELSE files[db]

\* df.to_sql can carry the call out: df is a frame (None has no to_sql), with at
\* least one column (CREATE TABLE needs one) and no column name twice.
ToSqlAccepts(df) ==
    /\ df.tag = "DataFrame"
    /\ Len(df.cols) > 0
    /\ \A i, j \in 1..Len(df.cols) : df.cols[i].name = df.cols[j].name => i = j

\* The query f"SELECT * FROM {table_name}" parses: the name is not quoted.
PlainIdentifier(name) == \A i \in 1..Len(name) : name[i] \in IdentChars

\* What a failed to_sql may leave under the name: the table as it was (nothing
\* ran), no table (the DROP of if_exists='replace' ran), or the new table without
\* rows (the CREATE ran too).  A df that is no frame fails before any statement.
AfterFailedToSql(df, old) ==
    IF df.tag # "DataFrame" THEN {old}
    ELSE {old, NoTable} \cup (IF ToSqlAccepts(df) THEN {CreatedBody(df)} ELSE {})

SetTable(db, name, body) ==
    IF db = MemoryDb
    THEN memdb' = [memdb EXCEPT ![name] = body] /\ UNCHANGED files
    ELSE files' = [files EXCEPT ![db][name] = body] /\ UNCHANGED memdb

\* A plausible slip: the exception is let through to the caller.
ExceptPropagates(e) == Raised(e)

\* except Exception as e: print(...); return None  (save falls through to the end)
ExceptReturnsNone(e) == Returned(NoneVal)

\* A plausible slip: the connection is never closed.
FinallyLeavesOpen(conn, n) == n

\* finally: if conn: conn.close()   -- the connections open afterwards
FinallyClose(conn, n) == IF conn # "None" THEN n - 1 ELSE n

NoCall == [op |-> "none", db |-> "", name |-> <<>>, fault |-> FALSE,
           existed |-> FALSE, out |-> Returned(NoneVal)]
NoRun == [db |-> "", name |-> <<>>, df |-> NoneVal, replaced |-> FALSE]
NoArg == [op |-> "none", df |-> NoneVal, db |-> "", name |-> <<>>, existed |-> FALSE]
NoRet == [out |-> Returned(NoneVal), fault |-> FALSE]

StoreInit ==
    /\ files = [db \in FileDbs |-> EmptyDatabase]
    /\ memdb = EmptyDatabase
    /\ openConns = 0
    /\ spc = "idle"
    /\ sarg = NoArg
    /\ sconn = "None"
    /\ sret = NoRet
    /\ slast = NoCall
    /\ srun = NoRun

\* conn = None; try: conn = sqlite3.connect(db_name)   (save and fetch alike)
Connect(op, df, db, name, next) ==
    /\ sarg' = [op |-> op, df |-> df, db |-> db, name |-> name,
                existed |-> db \in FileDbs /\ files[db][name] # NoTable]
    /\ IF Openable(db)
       THEN /\ sconn' = "open"
            /\ openConns' = openConns + 1
            /\ memdb' = EmptyDatabase
            /\ sret' = NoRet
            /\ spc' = next
       ELSE /\ sconn' = "None"
            /\ sret' = [out |-> ExceptReturnsNone("OperationalError"), fault |-> TRUE]
            /\ spc' = "finally"
            /\ UNCHANGED <<openConns, memdb>>
    /\ UNCHANGED <<files, slast, srun>>

\* save_to_database(df, db_name, table_name), up to the connection
SaveConnect(df, db, name) ==
    /\ spc = "idle"
    /\ Connect("save", df, db, name, "save_to_sql")
    /\ UNCHANGED notStore

\* df.to_sql(table_name, conn, if_exists='replace', index=False), which may fail
SaveToSql ==
    /\ spc = "save_to_sql"
    /\ \E fault \in BOOLEAN :
          IF ~fault /\ ToSqlAccepts(sarg.df)
          THEN /\ SetTable(sarg.db, sarg.name, ToSqlBody(sarg.df))
               /\ sret' = [out |-> Returned(NoneVal), fault |-> FALSE]
          ELSE /\ \E left \in AfterFailedToSql(sarg.df, DbView(sarg.db)[sarg.name]) :
                      SetTable(sarg.db, sarg.name, left)
               /\ sret' = [out |-> ExceptReturnsNone("Error"), fault |-> TRUE]
    /\ spc' = "finally"
    /\ UNCHANGED <<openConns, sarg, sconn, slast, srun>>
    /\ UNCHANGED notStore

\* fetch_data_from_db(db_name, table_name), up to the connection
FetchConnect(db, name) ==
    /\ spc = "idle"
    /\ Connect("fetch", NoneVal, db, name, "fetch_exists")
    /\ UNCHANGED notStore

\* the query of sqlite_master, which may fail; return None when the table is missing
FetchExists ==
    /\ spc = "fetch_exists"
    /\ \E fault \in BOOLEAN :
          IF fault
          THEN /\ sret' = [out |-> ExceptReturnsNone("Error"), fault |-> TRUE]
               /\ spc' = "finally"
          ELSE IF DbView(sarg.db)[sarg.name] = NoTable
          THEN /\ sret' = [out |-> Returned(NoneVal), fault |-> FALSE]
               /\ spc' = "finally"
          ELSE /\ sret' = NoRet
               /\ spc' = "fetch_read"
    /\ UNCHANGED <<files, memdb, openConns, sarg, sconn, slast, srun>>
    /\ UNCHANGED notStore

\* df = pd.read_sql(f"SELECT * FROM {table_name}", conn), which may fail; return df
FetchRead ==
    /\ spc = "fetch_read"
    /\ \E fault \in BOOLEAN :
          IF fault \/ ~PlainIdentifier(sarg.name)
          THEN sret' = [out |-> ExceptReturnsNone("Error"), fault |-> fault]
          ELSE sret' = [out |-> Returned(ReadSql(DbView(sarg.db)[sarg.name])),
                        fault |-> FALSE]
    /\ spc' = "finally"
    /\ UNCHANGED <<files, memdb, openConns, sarg, sconn, slast, srun>>
    /\ UNCHANGED notStore

\* The run of successful saves after a completed call: a successful save extends
\* the run under its name or starts one; a failed save ends it; a fetch keeps it.
RunAfter(run, arg, ret) ==
    IF arg.op # "save" THEN run
    ELSE IF ret.fault THEN NoRun
    ELSE [db |-> arg.db, name |-> arg.name, df |-> arg.df,
          replaced |-> /\ run.db = arg.db /\ run.name = arg.name
                       /\ (run.replaced \/ run.df # arg.df)]

\* finally: if conn: conn.close(); the call returns (or its exception goes on)
Finally ==
    /\ spc = "finally"
    /\ openConns' = FinallyClose(sconn, openConns)
    /\ memdb' = EmptyDatabase
    /\ sconn' = "None"
    /\ slast' = [op |-> sarg.op, db |-> sarg.db, name |-> sarg.name,
                 fault |-> sret.fault, existed |-> sarg.existed, out |-> sret.out]
    /\ srun' = RunAfter(srun, sarg, sret)
    /\ sarg' = NoArg
    /\ sret' = NoRet
    /\ spc' = "idle"
    /\ UNCHANGED files
    /\ UNCHANGED notStore

CityC == <<"C", "i", "t", "y", " ", "C">>
ValueCol == <<"V", "a", "l", "u", "e">>

\* tests/test_db.py: the frame of setUp, the frame of test_table_replacement,
\* the frame of test_with_nan_values, the frame of test_empty_dataframe.
TestFrame ==
    DataFrame(2, <<Column(AreaName, "object", <<Str(CityA), Str(CityB)>>),
                   Column(ValueCol, "int64", <<Num(100, 1), Num(200, 1)>>)>>)
NewFrame ==
    DataFrame(3, <<Column(AreaName, "object", <<Str(CityC), Str(CityA), Str(CityB)>>),
                   Column(ValueCol, "int64", <<Num(300, 1), Num(400, 1), Num(500, 1)>>)>>)
NanFrame ==
    DataFrame(3, <<Column(AreaName, "object", <<Str(CityA), Str(CityB), Str(CityC)>>),
                   Column(ValueCol, "float64", <<Num(100, 1), NaN, Num(300, 1)>>)>>)
StoreFrames == {TestFrame, NewFrame, NanFrame, EmptyFrame}

StoreNext ==
    \/ \E df \in StoreFrames, db \in DbNames, name \in TableNames : SaveConnect(df, db, name)
    \/ SaveToSql
    \/ \E db \in DbNames, name \in TableNames : FetchConnect(db, name)
    \/ FetchExists
    \/ FetchRead
    \/ Finally


---------------------------------------------------------------------------
(* Loader: src/src/data_loader.py. *)

\* What a path may hold: nothing, a directory, a delimited file that parses to
\* a frame, a file of no bytes, a file that does not decode.
MissingFile == [kind |-> "missing", df |-> NoneVal]
Directory == [kind |-> "dir", df |-> NoneVal]
CsvFile(df) == [kind |-> "csv", df |-> df]
ZeroByteFile == [kind |-> "zero", df |-> NoneVal]
BinaryFile == [kind |-> "binary", df |-> NoneVal]

\* os.path.exists(filepath)
PathExists(file) == file.kind # "missing"

\* pd.read_csv(filepath): the frame parsed, or the exception raised.
ReadCsv(file) ==
    CASE file.kind = "csv" -> Returned(file.df)
      [] file.kind = "missing" -> Raised("FileNotFoundError")
      [] file.kind = "dir" -> Raised("IsADirectoryError")
      [] file.kind = "zero" -> Raised("EmptyDataError")
      [] OTHER -> Raised("UnicodeDecodeError")

\* A plausible slip: the handler lets the exception through.
LoadExceptPropagates(e) == Raised(e)

\* except Exception as e: print(...); return pd.DataFrame()
LoadExcept(e) == Returned(EmptyFrame)

\* try: df = pd.read_csv(filepath); return df / except ...
TryReadCsv(file) ==
    IF ReadCsv(file).raised = "" THEN ReadCsv(file) ELSE LoadExcept(ReadCsv(file).raised)

\* A plausible slip: no check that the file exists before it is read.
LoadCsvDataUnchecked(seenAtCheck, seenAtRead) == TryReadCsv(seenAtRead)

\* load_csv_data(filepath), by what the path holds at the check and at the read.
LoadCsvData(seenAtCheck, seenAtRead) ==
    IF ~PathExists(seenAtCheck) THEN Raised("FileNotFoundError")
    ELSE TryReadCsv(seenAtRead)

HealthIndexCsv == "data/overall_health_index.csv"
GhostFileCsv == "data/ghost_file.csv"
Paths == {HealthIndexCsv, GhostFileCsv}
FileStates == {MissingFile, Directory, ZeroByteFile, BinaryFile, CsvFile(DirtyFrame),
               CsvFile(HeaderOnlyFrame)}

NoLoad == [op |-> "none", path |-> "", atCheck |-> MissingFile, atRead |-> MissingFile,
           out |-> Returned(NoneVal)]

LoaderInit ==
    /\ fs \in [Paths -> {MissingFile, CsvFile(DirtyFrame)}]
    /\ lpc = "idle"
    /\ larg = [path |-> "", atCheck |-> MissingFile]
    /\ llast = NoLoad

LoaderIdle ==
    /\ fs = [p \in Paths |-> MissingFile]
    /\ lpc = "idle"
    /\ larg = [path |-> "", atCheck |-> MissingFile]
    /\ llast = NoLoad

\* if not os.path.exists(filepath): raise FileNotFoundError(...)
LoadCheck(path) ==
    /\ lpc = "idle"
    /\ IF PathExists(fs[path])
       THEN /\ lpc' = "read"
            /\ larg' = [path |-> path, atCheck |-> fs[path]]
            /\ UNCHANGED llast
       ELSE /\ llast' = [op |-> "load", path |-> path, atCheck |-> fs[path],
                         atRead |-> fs[path], out |-> LoadCsvData(fs[path], fs[path])]
            /\ UNCHANGED <<lpc, larg>>
    /\ UNCHANGED fs
    /\ UNCHANGED notLoader

\* the try block: read_csv, return the frame or, on an exception, an empty frame
LoadRead ==
    /\ lpc = "read"
    /\ llast' = [op |-> "load", path |-> larg.path, atCheck |-> larg.atCheck,
                 atRead |-> fs[larg.path], out |-> LoadCsvData(larg.atCheck, fs[larg.path])]
    /\ lpc' = "idle"
    /\ larg' = [path |-> "", atCheck |-> MissingFile]
    /\ UNCHANGED fs
    /\ UNCHANGED notLoader

\* The file system changes under the program: a path is written, removed, replaced.
FileChange(path, file) ==
    /\ fs[path] # file
    /\ fs' = [fs EXCEPT ![path] = file]
    /\ UNCHANGED <<lpc, larg, llast>>
    /\ UNCHANGED notLoader

LoaderNext ==
    \/ \E path \in Paths : LoadCheck(path)
    \/ LoadRead
    \/ \E path \in Paths, file \in FileStates : FileChange(path, file)

---------------------------------------------------------------------------
(* A pipeline: a caller that runs load, clean, filter, stats, save and fetch   *)
(* one after the other, each stage on the result of an earlier one, and stops *)
(* at the first exception that reaches it.                                    *)

PipelineIdle ==
    /\ pv = NoneVal
    /\ pstat = StatsReturned(NoStats)
    /\ perr = ""
    /\ pstage = ""
    /\ plen = 0
    /\ pwait = ""

\* The caller can start a stage.
Ready == perr = "" /\ pwait = "" /\ spc = "idle" /\ plen < MaxStages

\* The stage returned out, or raised.
Took(stage, out) ==
    /\ pstage' = stage
    /\ plen' = plen + 1
    /\ perr' = out.raised
    /\ pv' = IF out.raised = "" THEN out.val ELSE pv
    /\ UNCHANGED <<pstat, pwait>>
    /\ UNCHANGED <<cleanerVars, storeVars, loaderVars, analyzerVars, loggerVars>>

\* df = load_csv_data(path)
PipeLoad(path) ==
    /\ Ready
    /\ Took("load", LoadCsvData(fs[path], fs[path]))

\* df = clean_health_data(df)
PipeClean ==
    /\ Ready /\ plen > 0
    /\ Took("clean", CleanHealthData(pv))

\* df = filter_data(df, column, value)
PipeFilter(column, value) ==
    /\ Ready /\ plen > 0
    /\ Took("filter", FilterData(pv, column, value))

\* stats = calculate_stats(df, column)
PipeStats(column) ==
    /\ Ready /\ plen > 0
    /\ pstat' = CalculateStats(pv, column)
    /\ perr' = CalculateStats(pv, column).raised
    /\ pstage' = "stats"
    /\ plen' = plen + 1
    /\ UNCHANGED <<pv, pwait>>
    /\ UNCHANGED <<cleanerVars, storeVars, loaderVars, analyzerVars, loggerVars>>

\* save_to_database(df, db) is called
PipeSave(db) ==
    /\ Ready /\ plen > 0
    /\ Connect("save", pv, db, HealthData, "save_to_sql")
    /\ pwait' = "save"
    /\ pstage' = "save"
    /\ plen' = plen + 1
    /\ UNCHANGED <<pv, pstat, perr>>
    /\ UNCHANGED notStoreNorPipe

\* df = fetch_data_from_db(db) is called
PipeFetch(db) ==
    /\ Ready
    /\ Connect("fetch", NoneVal, db, HealthData, "fetch_exists")
    /\ pwait' = "fetch"
    /\ pstage' = "fetch"
    /\ plen' = plen + 1
    /\ UNCHANGED <<pv, pstat, perr>>
    /\ UNCHANGED notStoreNorPipe

\* the Store call returns to the caller
PipeReturn ==
    /\ pwait # "" /\ spc = "idle"
    /\ perr' = slast.out.raised
    /\ pv' = IF pwait = "fetch" /\ slast.out.raised = "" THEN slast.out.val ELSE pv
    /\ pwait' = ""
    /\ UNCHANGED <<pstat, pstage, plen>>
    /\ UNCHANGED <<cleanerVars, storeVars, loaderVars, analyzerVars, loggerVars>>

LowerRegion == <<"r", "e", "g", "i", "o", "n">>

PipelineFiles ==
    [p \in Paths |-> IF p = HealthIndexCsv THEN CsvFile(DirtyFrame) ELSE MissingFile]

PipelineInit ==
    /\ fs = PipelineFiles
    /\ lpc = "idle"
    /\ larg = [path |-> "", atCheck |-> MissingFile]
    /\ llast = NoLoad
    /\ PipelineIdle

PipelineNext ==
    \/ \E path \in Paths : PipeLoad(path)
    \/ PipeClean
    \/ \E column \in {AreaType, AreaTypeNote3}, value \in {Str(LowerRegion), Num(100, 1)} :
          PipeFilter(column, value)
    \/ \E column \in {Y2015, AreaName} : PipeStats(column)
    \/ \E db \in {MemoryDb, FileDb} : PipeSave(db)
    \/ \E db \in {MemoryDb, FileDb} : PipeFetch(db)
    \/ SaveToSql
    \/ FetchExists
    \/ FetchRead
    \/ Finally
    \/ PipeReturn

---------------------------------------------------------------------------
(* The tables, columns and values the Analyzer is run on. *)

North == <<"N", "o", "r", "t", "h">>
South == <<"S", "o", "u", "t", "h">>
East == <<"E", "a", "s", "t">>
Y2021 == <<"2", "0", "2", "1">>
NanText == <<"n", "a", "n">>
OnePointZero == <<"1", ".", "0">>

\* The frame of tests/test_analysis.py, setUp (without its column 2020).
AnalysisFrame ==
    DataFrame(3, <<Column(AreaName, "object", <<Str(North), Str(South), Str(East)>>),
                   Column(AreaType, "object", <<Str(Region), Str(Region), Str(LTLA)>>),
                   Column(Y2021, "float64", <<Num(100, 1), Num(150, 1), Num(50, 1)>>)>>)

\* The same rows with whole numbers in the column 2021.
WholeNumberFrame ==
    DataFrame(3, <<Column(AreaType, "object", <<Str(Region), Str(Region), Str(LTLA)>>),
                   Column(Y2021, "int64", <<Num(100, 1), Num(150, 1), Num(50, 1)>>)>>)

TextCells == {Str(Region), Str(LTLA), NaN}
\* A missing cell, 1.0 and the first float from which on the odd whole numbers
\* are not floats (2^53 for float64).
StatCells == {NaN, Num(1, 1), Num(Pow2(MantissaBits), 1)}

\* A textual and a numeric column, every pattern of values and missing cells.
AnalysisTables ==
    UNION {{DataFrame(r, <<Column(AreaType, "object", t), Column(Y2021, "float64", n)>>) :
                t \in [1..r -> TextCells], n \in [1..r -> StatCells]} :
           r \in 0..MaxStatRows}

\* A missing cell, a large number and two small ones.
RoundingFrame ==
    DataFrame(4, <<Column(AreaType, "object", <<Str(LTLA), Str(Region), Str(Region), Str(Region)>>),
                   Column(Y2021, "float64",
                          <<NaN, Num(Pow2(MantissaBits), 1), Num(1, 1), Num(1, 1)>>)>>)

AnalysisInputs ==
    AnalysisTables \cup {EmptyFrame, AnalysisFrame, WholeNumberFrame, RoundingFrame}
AnalysisColumns == {AreaName, AreaType, Y2021}
AnalysisValues == {Str(LowerRegion), Str(NanText), Str(OnePointZero), Num(1, 1)}

StatsPending == [raised |-> "pending", stats |-> NoStats]

AnalyzerIdle ==
    /\ aIn = EmptyFrame
    /\ aCol = <<>>
    /\ aVal = Str(<<>>)
    /\ aDcol = <<>>
    /\ aOut = Pending
    /\ aStat = StatsPending
    /\ aStatF = StatsPending
    /\ aOrder = <<>>
    /\ aStatR = StatsPending
    /\ apc = "off"

AnalyzerInit ==
    /\ aIn \in AnalysisInputs
    /\ aCol \in AnalysisColumns
    /\ aVal \in AnalysisValues
    /\ aDcol \in AnalysisColumns
    /\ aOut = Pending
    /\ aStat = StatsPending
    /\ aStatF = StatsPending
    /\ aOrder = <<>>
    /\ aStatR = StatsPending
    /\ apc = "start"

\* filtered = filter_data(df, column, value)
Filter ==
    /\ apc = "start"
    /\ aOut' = FilterData(aIn, aCol, aVal)
    /\ apc' = "filtered"
    /\ UNCHANGED <<aIn, aCol, aVal, aDcol, aStat, aStatF, aOrder, aStatR>>
    /\ UNCHANGED notAnalyzer

\* stats = calculate_stats(df, column)
CalcStats ==
    /\ apc = "filtered"
    /\ aStat' = CalculateStats(aIn, aDcol)
    /\ apc' = "stats"
    /\ UNCHANGED <<aIn, aCol, aVal, aDcol, aOut, aStatF, aOrder, aStatR>>
    /\ UNCHANGED notAnalyzer

\* stats = calculate_stats(filtered, column)      (test_integration_filter_then_calculate)
CalcStatsOfFiltered ==
    /\ apc = "stats"
    /\ aOut.raised = ""
    /\ aStatF' = CalculateStats(aOut.val, aDcol)
    /\ apc' = "filteredstats"
    /\ UNCHANGED <<aIn, aCol, aVal, aDcol, aOut, aStat, aOrder, aStatR>>
    /\ UNCHANGED notAnalyzer

\* The rows 1..n from the last to the first, and from the second on with the first last.
Reversed(n) == [i \in 1..n |-> n + 1 - i]
Rotated(n) == [i \in 1..n |-> (i % n) + 1]
Reorder(how, n) == IF how = "reversed" THEN Reversed(n) ELSE Rotated(n)

\* stats = calculate_stats(df.iloc[order], column): the same rows in another order
CalcStatsReordered(how) ==
    /\ apc = "filteredstats"
    /\ aOrder' = Reorder(how, aIn.nrows)
    /\ aStatR' = CalculateStats(TakeRows(aIn, Reorder(how, aIn.nrows)), aDcol)
    /\ apc' = "done"
    /\ UNCHANGED <<aIn, aCol, aVal, aDcol, aOut, aStat, aStatF>>
    /\ UNCHANGED notAnalyzer

AnalyzerNext ==
    \/ Filter
    \/ CalcStats
    \/ CalcStatsOfFiltered
    \/ \E how \in {"reversed", "rotated"} : CalcStatsReordered(how)

---------------------------------------------------------------------------
(* Logger: src/src/activity_logger.py. *)

\* The paths: the default log file under its directory, a log file in the
\* working directory, and the directory of the default log file.
DefaultLog == "logs/activity.log"
AuditLog == "audit.log"
LogsDir == "logs"
LogPaths == {DefaultLog, AuditLog, LogsDir}

\* os.path.dirname(log_file)
DirName(path) == IF path = DefaultLog THEN LogsDir ELSE ""

\* What a path holds: nothing, a directory, or a file with its lines.
Nothing == [kind |-> "none", lines |-> <<>>]
Dir == [kind |-> "dir", lines |-> <<>>]
File(lines) == [kind |-> "file", lines |-> lines]

\* if log_dir and not os.path.exists(log_dir): os.makedirs(log_dir)
MakeDirs(fsys, path) ==
    IF DirName(path) # "" /\ fsys[DirName(path)].kind = "none"
    THEN [fsys EXCEPT ![DirName(path)] = Dir]
    ELSE fsys

\* open(log_file, 'a') succeeds: the path is no directory and lies in one.
CanOpen(fsys, path) ==
    /\ fsys[path].kind # "dir"
    /\ DirName(path) # "" => fsys[DirName(path)].kind = "dir"

\* The exception of open(log_file, 'a') when it fails.
OpenError(fsys, path) ==
    IF fsys[path].kind = "dir" THEN "IsADirectoryError" ELSE "NotADirectoryError"

\* logging.FileHandler(log_file): the file is opened for appending, created
\* when there is none, its lines kept when there is one.
OpenAppend(fsys, path) ==
    IF fsys[path].kind = "none" THEN [fsys EXCEPT ![path] = File(<<>>)] ELSE fsys

\* The handle of the logger: logging.getLogger('HealthDashboard') creates the
\* logger at the first call and returns that object at every later call.
HealthDashboard == "HealthDashboard"
NoLogger == [created |-> FALSE, level |-> "NOTSET", handlers |-> <<>>]
GetLogger(logger) == HealthDashboard

\* A plausible slip: no guard, a handler is attached at every call.
NoGuard(logger) == FALSE

\* if logger.handlers:
HasHandlers(logger) == logger.handlers # <<>>

\* setup_logger(log_file): the file system, the logger and the outcome (the
\* handle returned, or the exception raised) after the call.
SetupLogger(fsys, logger, path) ==
    LET made == MakeDirs(fsys, path)
        leveled == [logger EXCEPT !.created = TRUE, !.level = "INFO"]
    IN  IF HasHandlers(leveled)
        THEN [fsys |-> made, logger |-> leveled, raised |-> "", handle |-> GetLogger(logger)]
        ELSE IF ~CanOpen(made, path)
        THEN [fsys |-> made, logger |-> leveled, raised |-> OpenError(made, path), handle |-> ""]
        ELSE [fsys |-> OpenAppend(made, path),
              logger |-> [leveled EXCEPT !.handlers = Append(@, path)],
              raised |-> "", handle |-> GetLogger(logger)]

\* A detail: None, or a text.
NoDetail == [given |-> FALSE, text |-> ""]
Detail(text) == [given |-> TRUE, text |-> text]

\* A plausible slip: the detail is appended whenever one is passed, empty or not.
DetailGiven(details) == details.given

\* if details:  -- a text that is not empty
Truthy(details) == details.given /\ details.text # ""

\* msg = f"[{operation}] {filename}"; if details: msg += f" - {details}"
Message(operation, filename, details) ==
    <<"[", operation, "]", " ", filename>>
        \o (IF Truthy(details) THEN <<" - ", details.text>> ELSE <<>>)

\* time.strftime('%Y-%m-%d %H:%M:%S') of the clock.
AscTime(t) == <<"2026-01-01 00:00:0", ToString(t)>>

\* '%(asctime)s - %(levelname)s - %(message)s'
Format(t, levelname, msg) == AscTime(t) \o <<" - ", levelname, " - ">> \o msg

\* handler.emit(record) of every handler of the logger, in their order: the
\* line is appended to the file of each.
RECURSIVE Emit(_, _, _)
Emit(fsys, handlers, line) ==
    IF handlers = <<>> THEN fsys
    ELSE Emit([fsys EXCEPT ![Head(handlers)] = File(Append(@.lines, line))],
              Tail(handlers), line)

\* logger.info(msg): dropped below the level of the logger, else formatted and
\* handed to the handlers (the root logger has none).
Info(fsys, logger, t, msg) ==
    IF logger.level # "INFO" THEN fsys
    ELSE Emit(fsys, logger.handlers, Format(t, "INFO", msg))

LogOperations == {"LOAD", "SAVE"}
LogDetails == {NoDetail, Detail(""), Detail("342 rows saved")}

\* No call yet.  Of a call: the call and its arguments, the setup call whose
\* handle a record went through, the clock and the files at the call, and the
\* calls made so far.
NoLogCall == [op |-> "none", path |-> "", raised |-> "", via |-> 0,
              operation |-> "", filename |-> "", details |-> NoDetail, time |-> 0,
              before |-> [p \in LogPaths |-> Nothing], count |-> 0]

LoggerIdle ==
    /\ lgFs = [p \in LogPaths |-> Nothing]
    /\ lgLogger = NoLogger
    /\ lgSetups = <<>>
    /\ lgLast = NoLogCall
    /\ lgNow = 0

\* The entry an earlier process has left in a log file.
EarlierEntry == Format(0, "INFO", Message("SAVE", "health.db", NoDetail))

\* The process starts with no logger; the directory of the logs may exist, and
\* so may a log file written by an earlier process.
LoggerInit ==
    /\ lgFs \in {[p \in LogPaths |-> Nothing],
                [p \in LogPaths |-> IF p = LogsDir THEN Dir ELSE Nothing],
                [p \in LogPaths |-> IF p = AuditLog THEN File(<<EarlierEntry>>) ELSE Nothing]}
    /\ lgLogger = NoLogger
    /\ lgSetups = <<>>
    /\ lgLast = NoLogCall
    /\ lgNow = 0

\* logger = setup_logger(log_file)
Setup(path) ==
    /\ lgLast.count < MaxLogCalls
    /\ LET r == SetupLogger(lgFs, lgLogger, path)
       IN  /\ lgFs' = r.fsys
           /\ lgLogger' = r.logger
           /\ lgSetups' = Append(lgSetups, [path |-> path, raised |-> r.raised, handle |-> r.handle])
           /\ lgLast' = [NoLogCall EXCEPT !.op = "setup", !.path = path, !.raised = r.raised,
                                          !.time = lgNow, !.before = lgFs,
                                          !.count = lgLast.count + 1]
    /\ UNCHANGED lgNow
    /\ UNCHANGED notLogger

\* log_operation(logger, operation, filename, details), logger the handle that
\* the k-th setup call returned
Record(k, operation, filename, details) ==
    /\ lgLast.count < MaxLogCalls
    /\ k \in 1..Len(lgSetups)
    /\ lgSetups[k].raised = ""
    /\ lgSetups[k].handle = HealthDashboard
    /\ lgFs' = Info(lgFs, lgLogger, lgNow, Message(operation, filename, details))
    /\ lgLast' = [NoLogCall EXCEPT !.op = "record", !.via = k, !.operation = operation,
                                   !.filename = filename, !.details = details,
                                   !.time = lgNow, !.before = lgFs,
                                   !.count = lgLast.count + 1]
    /\ UNCHANGED <<lgLogger, lgSetups, lgNow>>
    /\ UNCHANGED notLogger

\* A second passes.
Tick ==
    /\ lgNow < MaxTime
    /\ lgNow' = lgNow + 1
    /\ UNCHANGED <<lgFs, lgLogger, lgSetups, lgLast>>
    /\ UNCHANGED notLogger

LoggerNext ==
    \/ \E path \in LogPaths : Setup(path)
    \/ \E k \in 1..MaxLogCalls, operation \in LogOperations, details \in LogDetails :
          Record(k, operation, "data.csv", details)
    \/ Tick

---------------------------------------------------------------------------
(* The specifications: one per component, the others at rest. *)

CleanerSpecInit == CleanerInit /\ StoreInit /\ LoaderIdle /\ PipelineIdle /\ AnalyzerIdle /\ LoggerIdle
SpecCleaner == CleanerSpecInit /\ [][CleanerNext]_vars

StoreSpecInit == CleanerIdle /\ StoreInit /\ LoaderIdle /\ PipelineIdle /\ AnalyzerIdle /\ LoggerIdle
SpecStore == StoreSpecInit /\ [][StoreNext]_vars

LoaderSpecInit == CleanerIdle /\ StoreInit /\ LoaderInit /\ PipelineIdle /\ AnalyzerIdle /\ LoggerIdle
SpecLoader == LoaderSpecInit /\ [][LoaderNext]_vars

PipelineSpecInit == CleanerIdle /\ StoreInit /\ PipelineInit /\ AnalyzerIdle /\ LoggerIdle
SpecPipeline == PipelineSpecInit /\ [][PipelineNext]_vars

AnalyzerSpecInit == CleanerIdle /\ StoreInit /\ LoaderIdle /\ PipelineIdle /\ AnalyzerInit /\ LoggerIdle
SpecAnalyzer == AnalyzerSpecInit /\ [][AnalyzerNext]_vars

LoggerSpecInit ==
    CleanerIdle /\ StoreInit /\ LoaderIdle /\ PipelineIdle /\ AnalyzerIdle /\ LoggerInit
SpecLogger == LoggerSpecInit /\ [][LoggerNext]_vars

---------------------------------------------------------------------------
(* Properties of the Store, checked under SpecStore. *)

\* The frame a call returned has the rows, the column names and the values of
\* df; a missing cell may be missing in another representation.
SameTable(out, df) ==
    /\ out.raised = ""
    /\ out.val.tag = "DataFrame"
    /\ out.val.nrows = df.nrows
    /\ Len(out.val.cols) = Len(df.cols)
    /\ \A i \in 1..Len(df.cols) :
          /\ out.val.cols[i].name = df.cols[i].name
          /\ Len(out.val.cols[i].cells) = Len(df.cols[i].cells)
          /\ \A j \in 1..Len(df.cols[i].cells) :
                IF IsNa(df.cols[i].cells[j]) THEN IsNa(out.val.cols[i].cells[j])
                ELSE out.val.cols[i].cells[j] = df.cols[i].cells[j]

\* A fetch has completed, without a failure of the database underneath, for the
\* database and the name of the successful saves that came last.
FetchedAfterSave ==
    /\ spc = "idle"
    /\ slast.op = "fetch"
    /\ ~slast.fault
    /\ srun # NoRun
    /\ slast.db = srun.db
    /\ slast.name = srun.name

\* C1, as claimed: for every table, table name and database identifier, a file
\* path or ':memory:', a fetch that follows a successful save returns a table with
\* the rows, the column names and the values saved (missing values may change
\* representation).
SaveFetchRoundTrip ==
    FetchedAfterSave => SameTable(slast.out, srun.df)

\* C2, as claimed: after successful saves of different content under one name, a
\* fetch returns exactly the rows and columns of the last save.
SaveReplaces ==
    (FetchedAfterSave /\ srun.replaced) =>
        /\ slast.out.raised = ""
        /\ slast.out.val.tag = "DataFrame"
        /\ slast.out.val.nrows = srun.df.nrows
        /\ ColumnNames(slast.out.val) = ColumnNames(srun.df)
        /\ SameTable(slast.out, srun.df)

\* C3: a fetch never raises; it returns None when no table of that name exists in
\* the database at the call and when the connection or a query fails; it returns
\* a table only when the table exists and nothing failed.
FetchNoneWhenMissingOrFailed ==
    (spc = "idle" /\ slast.op = "fetch") =>
        /\ slast.out.raised = ""
        /\ (~slast.existed \/ slast.fault) => slast.out.val = NoneVal
        /\ slast.out.val.tag = "DataFrame" => (slast.existed /\ ~slast.fault)

\* C3 happens: a fetch from the database file, in which another table exists,
\* of a name under which none exists, returned None with nothing failing.
FetchNoneWhenMissingWitness ==
    /\ spc = "idle"
    /\ slast.op = "fetch"
    /\ slast.db = FileDb
    /\ ~slast.existed
    /\ ~slast.fault
    /\ slast.out = Returned(NoneVal)
    /\ \E name \in TableNames : files[FileDb][name] # NoTable

\* C4: no connection is open while no save or fetch runs, and a running call
\* holds at most the one connection it opened.
ScopedConnection ==
    /\ spc = "idle" => openConns = 0
    /\ spc # "idle" => openConns = (IF sconn = "open" THEN 1 ELSE 0)

\* C4 happens: a save to the database file has failed after it had connected,
\* has returned, and no connection is open.
ScopedConnectionWitness ==
    /\ spc = "idle"
    /\ slast.op = "save"
    /\ slast.db = FileDb
    /\ slast.fault
    /\ openConns = 0

---------------------------------------------------------------------------
(* Properties of the Loader, checked under SpecLoader. *)

\* C5: load raises FileNotFoundError exactly when the path holds nothing at the
\* call; for a path that holds something it raises nothing and returns the frame
\* parsed or, when reading or parsing fails, the frame of no row and no column.
LoadErrorPolicy ==
    llast.op = "load" =>
        /\ llast.out.raised = "FileNotFoundError" <=> llast.atCheck.kind = "missing"
        /\ llast.atCheck.kind # "missing" =>
              /\ llast.out.raised = ""
              /\ IF llast.atRead.kind = "csv"
                 THEN llast.out.val = llast.atRead.df
                 ELSE llast.out.val = EmptyFrame /\ IsEmpty(llast.out.val)
                        /\ llast.out.val.nrows = 0 /\ Len(llast.out.val.cols) = 0

\* C5 happens: a load of a path that holds a file that does not parse has
\* returned the empty frame, after a load of a path that held nothing.
LoadErrorPolicyWitness ==
    /\ lpc = "idle"
    /\ llast.op = "load"
    /\ llast.atCheck.kind \in {"zero", "binary"}
    /\ llast.atRead.kind \in {"zero", "binary"}
    /\ llast.out = Returned(EmptyFrame)
    /\ \E p \in Paths : fs[p] = MissingFile

---------------------------------------------------------------------------
(* Properties of the pipeline, checked under SpecPipeline. *)

\* C6, as claimed: whatever the stages and whatever a stage is handed by an
\* earlier one (a table, an empty table, the None of a fetch that found nothing),
\* the only exception that reaches the caller is the FileNotFoundError of load.
OnlyNotFoundPropagates ==
    perr # "" => (perr = "FileNotFoundError" /\ pstage = "load")

---------------------------------------------------------------------------
(* Properties of the Cleaner, checked under SpecCleaner. *)

Cleaned == cpc \in {"cleaned", "recleaned"}

CellsOf(df) == {df.cols[i].cells[j] : i \in 1..Len(df.cols), j \in 1..df.nrows}

\* Two columns of df get the same name from the normalization.
NamesCollide(df) ==
    \E i, j \in 1..Len(df.cols) :
        i # j /\ NormalizeName(df.cols[i].name) = NormalizeName(df.cols[j].name)

\* C7: whatever the mix of numeric and textual columns and the pattern of missing
\* cells of the input, the table clean returns has no missing cell; and clean
\* returns a table unless two column names collide after normalization (which the
\* design leaves undefined).
CleanLeavesNoMissing ==
    Cleaned =>
        /\ cOut.raised # "" => NamesCollide(cIn)
        /\ cOut.raised = "" => \A c \in CellsOf(cOut.val) : ~IsNa(c)

\* C7 happens: clean returned for a table with an all-missing numeric column and
\* a textual column with a missing cell in a row that is missing throughout.
CleanLeavesNoMissingWitness ==
    /\ cpc = "cleaned"
    /\ cOut.raised = ""
    /\ cIn.nrows >= 2
    /\ \E i \in 1..Len(cIn.cols) :
          IsNumeric(cIn.cols[i].dtype) /\ \A j \in 1..cIn.nrows : IsNa(cIn.cols[i].cells[j])
    /\ \E i \in 1..Len(cIn.cols) :
          cIn.cols[i].dtype = "object" /\ IsNa(cIn.cols[i].cells[1])
                                    /\ ~IsNa(cIn.cols[i].cells[2])

\* C8, as claimed: the second pass of clean returns the table the first pass
\* returned: the same column names in the same order and the same cells.
CleanIsIdempotent ==
    cpc = "recleaned" => cOut2 = cOut

\* The removal as the claim words it, from index i: optional whitespace, "[",
\* the shortest text of any characters up to the next "]", optional whitespace.
RECURSIVE NextClose(_, _)
NextClose(s, i) ==
    IF i > Len(s) THEN 0 ELSE IF s[i] = "]" THEN i ELSE NextClose(s, i + 1)

RECURSIVE AnnotationsRemoved(_, _)
AnnotationsRemoved(s, i) ==
    IF i > Len(s) THEN <<>>
    ELSE LET open == SkipSpace(s, i)
             close == IF open <= Len(s) /\ s[open] = "[" THEN NextClose(s, open + 1) ELSE 0
         IN  IF close # 0 THEN AnnotationsRemoved(s, SkipSpace(s, close + 1))
             ELSE <<s[i]>> \o AnnotationsRemoved(s, i + 1)

HasAnnotation(s) == \E i, j \in 1..Len(s) : i < j /\ s[i] = "[" /\ s[j] = "]"

\* C9, as claimed: whatever the number of rows, every column of clean(T) is named
\* by the input name with its bracketed annotations removed and the rest trimmed,
\* no name keeps a "[...]" annotation, and "Area Type [Note 3]" becomes "Area Type".
CleanNormalizesNames ==
    (Cleaned /\ cOut.raised = "") =>
        /\ Len(cOut.val.cols) = Len(cIn.cols)
        /\ \A i \in 1..Len(cIn.cols) :
              /\ cOut.val.cols[i].name = Strip(AnnotationsRemoved(cIn.cols[i].name, 1))
              /\ ~HasAnnotation(cOut.val.cols[i].name)
              /\ cIn.cols[i].name = AreaTypeNote3 => cOut.val.cols[i].name = AreaType

\* The cells of a numeric column that hold a number.
Present(cells) == {j \in 1..Len(cells) : ~IsNa(cells[j])}

\* The sum of the whole numbers held at the indices js.
RECURSIVE IntSum(_, _)
IntSum(cells, js) ==
    IF js = {} THEN 0
    ELSE LET j == CHOOSE x \in js : TRUE
         IN  cells[j].n + IntSum(cells, js \ {j})

\* C10: in the table clean returns, a cell that was missing in a numeric column
\* holds the mean of the column's non-missing input values (their sum divided by
\* their count, as a float; the same value for the whole column), or 0 when the
\* whole column was missing; a cell that was missing
\* in a non-numeric column holds "Unknown"; every other cell keeps its value.
CleanFillsAsSpecified ==
    (Cleaned /\ cOut.raised = "") =>
        /\ cOut.val.nrows = cIn.nrows
        /\ Len(cOut.val.cols) = Len(cIn.cols)
        /\ \A i \in 1..Len(cIn.cols) :
              LET before == cIn.cols[i].cells
                  after == cOut.val.cols[i].cells
              IN  /\ Len(after) = Len(before)
                  /\ \A j \in 1..Len(before) :
                        IF ~IsNa(before[j]) THEN after[j] = before[j]
                        ELSE IF ~IsNumeric(cIn.cols[i].dtype) THEN after[j] = Str(Unknown)
                        ELSE IF Present(before) = {} THEN after[j] = Num(0, 1)
                        ELSE after[j] = FloatDiv(Num(IntSum(before, Present(before)), 1),
                                                 Cardinality(Present(before)))

\* C10 happens: clean returned for a table with a numeric column that holds two
\* different numbers and a missing cell, and with a textual column with a missing cell.
CleanFillsAsSpecifiedWitness ==
    /\ cpc = "cleaned"
    /\ cOut.raised = ""
    /\ \E i \in 1..Len(cIn.cols) :
          /\ IsNumeric(cIn.cols[i].dtype)
          /\ \E j, k, l \in 1..cIn.nrows :
                /\ IsNa(cIn.cols[i].cells[j])
                /\ ~IsNa(cIn.cols[i].cells[k]) /\ ~IsNa(cIn.cols[i].cells[l])
                /\ cIn.cols[i].cells[k] # cIn.cols[i].cells[l]
    /\ \E i \in 1..Len(cIn.cols) :
          cIn.cols[i].dtype = "object" /\ \E j \in 1..cIn.nrows : IsNa(cIn.cols[i].cells[j])

\* C11: when clean returns, the caller's table has the column names and the cells
\* it had at the call (a missing cell still missing), and the result has as many
\* rows and as many columns as the input, the columns in the order of the input
\* and every cell that was present still in its row and column.
CleanIsPure ==
    (Cleaned /\ cOut.raised = "") =>
        /\ cArg = cIn
        /\ cOut.val.tag = "DataFrame"
        /\ cOut.val.nrows = cIn.nrows
        /\ Len(cOut.val.cols) = Len(cIn.cols)
        /\ \A i \in 1..Len(cIn.cols) :
              /\ cOut.val.cols[i].name \in {cIn.cols[i].name, NormalizeName(cIn.cols[i].name)}
              /\ Len(cOut.val.cols[i].cells) = cIn.nrows
              /\ \A j \in 1..cIn.nrows :
                    ~IsNa(cIn.cols[i].cells[j]) =>
                        cOut.val.cols[i].cells[j] = cIn.cols[i].cells[j]

\* C11 happens: clean has returned, for the frame of the tests with its annotated
\* name and its missing cell, a result that differs from the input, and the
\* caller's table still has the annotation and the missing cell.
CleanIsPureWitness ==
    /\ Cleaned
    /\ cIn = DirtyFrame
    /\ cOut.raised = ""
    /\ cOut.val # cIn
    /\ cArg.cols[2].name = AreaTypeNote3
    /\ cArg.cols[3].cells[2] = NaN

---------------------------------------------------------------------------
(* Properties of the Analyzer, checked under SpecAnalyzer. *)

Filtered == apc # "start"

\* The column of df under the label column.
Col(df, column) == df.cols[ColumnIndex(df, column)]

\* Cell j of the column, stringified and lowercased, equals the lowercased text v.
TextMatch(col, j, v) == Lower(Stringify(col.cells[j], col.dtype)) = Lower(v)

\* Row k of the frame out is row j of the frame df, in every column of df.
SameRow(out, k, df, j) ==
    /\ Len(out.cols) = Len(df.cols)
    /\ \A i \in 1..Len(df.cols) :
          /\ out.cols[i].name = df.cols[i].name
          /\ out.cols[i].cells[k] = df.cols[i].cells[j]

\* The rows of out are, in their order, the rows of df that satisfy Match: a
\* strictly increasing map from the rows of out onto those rows.
ExactlyRows(out, df, Match(_)) ==
    /\ out.tag = "DataFrame"
    /\ out.nrows = Cardinality({j \in 1..df.nrows : Match(j)})
    /\ Len(out.cols) = Len(df.cols)
    /\ \A i \in 1..Len(df.cols) :
          out.cols[i].name = df.cols[i].name /\ Len(out.cols[i].cells) = out.nrows
    /\ \A k \in 1..out.nrows :
          \E j \in 1..df.nrows :
              /\ Match(j)
              /\ Cardinality({x \in 1..j : Match(x)}) = k
              /\ SameRow(out, k, df, j)

\* C12: for a table that is not empty, a column it has and a textual value,
\* filter returns, without raising, exactly the rows whose cell in that column,
\* stringified and lowercased, equals the lowercased value: all of them, no other,
\* in their order, each with every column of the table in the order of the table;
\* also when no row matches.
FilterTextual ==
    (Filtered /\ ~IsEmpty(aIn) /\ aCol \in ColumnNames(aIn) /\ aVal.k = "str") =>
        /\ aOut.raised = ""
        /\ LET Match(j) == TextMatch(Col(aIn, aCol), j, aVal.s)
           IN  ExactlyRows(aOut.val, aIn, Match)

\* C12 happens: filter has returned the two rows of 'Region' of the frame of the
\* tests for the value 'region', and not its row of 'LTLA'.
FilterTextualWitness ==
    /\ Filtered
    /\ aIn = AnalysisFrame
    /\ aCol = AreaType
    /\ aVal = Str(LowerRegion)
    /\ aOut.raised = ""
    /\ aOut.val.nrows = 2
    /\ aOut.val.cols[1].cells = <<Str(North), Str(South)>>

\* C13: for a table that is empty (no row, or no column) and for a column the
\* table does not have, filter raises nothing and returns the table of no row and
\* no column, whatever the value, textual or numeric.
FilterEmptyOrAbsent ==
    (Filtered /\ (IsEmpty(aIn) \/ aCol \notin ColumnNames(aIn))) =>
        /\ aOut.raised = ""
        /\ aOut.val.tag = "DataFrame"
        /\ aOut.val.nrows = 0
        /\ Len(aOut.val.cols) = 0

\* C13 happens: filter has returned for a table with rows and columns that has no
\* column of the name asked for.
FilterEmptyOrAbsentWitness ==
    /\ Filtered
    /\ aIn.nrows > 0
    /\ Len(aIn.cols) > 0
    /\ aCol \notin ColumnNames(aIn)
    /\ aOut = Returned(EmptyFrame)

StatsCalled == apc \in {"stats", "filteredstats", "done"}

StatsKeys == {"mean", "min", "max", "count"}

\* The column of df under the label holds a textual cell.
HoldsText(df, column) ==
    \E j \in 1..df.nrows : Col(df, column).cells[j].k = "str"

\* C14, as claimed: stats is None exactly when the table is empty or lacks the
\* column; for a table that is not empty and a column it has, of whatever type,
\* the result is a dict with exactly the keys mean, min, max and count.
StatsNoneIffEmptyOrAbsent ==
    StatsCalled =>
        /\ aStat.raised = ""
        /\ aStat.stats = NoStats <=> (IsEmpty(aIn) \/ aDcol \notin ColumnNames(aIn))
        /\ (~IsEmpty(aIn) /\ aDcol \in ColumnNames(aIn)) => DOMAIN aStat.stats = StatsKeys

\* C14, amended: stats raises nothing and is None exactly when the table is
\* empty, lacks the column, or the column holds a textual cell (the computation
\* raises and the handler returns None); in every other case, however many cells
\* are missing, the result is a dict with exactly the keys mean, min, max, count.
StatsNoneIffNothingToCompute ==
    StatsCalled =>
        /\ aStat.raised = ""
        /\ aStat.stats = NoStats <=>
              \/ IsEmpty(aIn)
              \/ aDcol \notin ColumnNames(aIn)
              \/ HoldsText(aIn, aDcol)
        /\ aStat.stats # NoStats => DOMAIN aStat.stats = StatsKeys

\* C14 happens: stats has returned None for a table with rows and a column of
\* that name, which holds text.
StatsNoneIffNothingToComputeWitness ==
    /\ StatsCalled
    /\ ~IsEmpty(aIn)
    /\ aDcol \in ColumnNames(aIn)
    /\ HoldsText(aIn, aDcol)
    /\ aStat = StatsReturned(NoStats)

\* The exact sum of the cells that are not missing, and of their magnitudes.
RECURSIVE ExactSum(_)
ExactSum(cells) ==
    IF cells = <<>> THEN Num(0, 1)
    ELSE IF IsNa(Head(cells)) THEN ExactSum(Tail(cells))
    ELSE RatAdd(Head(cells), ExactSum(Tail(cells)))

RECURSIVE ExactAbsSum(_)
ExactAbsSum(cells) ==
    IF cells = <<>> THEN Num(0, 1)
    ELSE IF IsNa(Head(cells)) THEN ExactAbsSum(Tail(cells))
    ELSE RatAdd(Num(Abs(Head(cells).n), Head(cells).d), ExactAbsSum(Tail(cells)))

\* The stats are those of a numeric column with a cell that is not missing.
OfNumericColumn == 
    /\ apc = "done"
    /\ ~IsEmpty(aIn)
    /\ aDcol \in ColumnNames(aIn)
    /\ IsNumeric(Col(aIn, aDcol).dtype)
    /\ Present(Col(aIn, aDcol).cells) # {}

\* count, min and max of the dict st are those of the cells.
CountMinMaxOf(st, cells) ==
    /\ DOMAIN st = StatsKeys
    /\ st.count = Cardinality(Present(cells))
    /\ \E j \in Present(cells) : st.min = cells[j]
    /\ \E j \in Present(cells) : st.max = cells[j]
    /\ \A j \in Present(cells) : ~RatLess(cells[j], st.min) /\ ~RatLess(st.max, cells[j])

\* mean is the sum of the cells divided by their count, up to the rounding of
\* the count - 1 additions and of the division: it differs from the exact
\* quotient by at most (count + 1) * 2^(-MantissaBits) * (the sum of the magnitudes) / count.
MeanWithinRounding(mean, cells) ==
    LET c == Cardinality(Present(cells))
        sum == ExactSum(cells)
        mag == ExactAbsSum(cells)
    IN  /\ mean.k = "num"
        /\ Abs(mean.n * c * sum.d - sum.n * mean.d) * Pow2(MantissaBits) * mag.d
              <= (c + 1) * mag.n * mean.d * sum.d

\* C15, as claimed: for a numeric column with a cell that is not missing, count
\* is the number of cells that are not missing, mean is their sum divided by
\* count (the float nearest to the quotient), min and max are the smallest and
\* the largest of them, and the same rows in another order give the same result.
StatsOfNumericColumn ==
    OfNumericColumn =>
        /\ aStat.raised = ""
        /\ CountMinMaxOf(aStat.stats, Col(aIn, aDcol).cells)
        /\ aStat.stats.mean =
              FloatDiv(ExactSum(Col(aIn, aDcol).cells), Cardinality(Present(Col(aIn, aDcol).cells)))
        /\ aStatR = aStat

\* C15, amended: count, min and max are as claimed and do not depend on the order
\* of the rows; mean is the sum divided by count up to the rounding of the
\* floating-point additions and division, in either order of the rows.
StatsOfNumericColumnRounded ==
    OfNumericColumn =>
        /\ aStat.raised = ""
        /\ aStatR.raised = ""
        /\ CountMinMaxOf(aStat.stats, Col(aIn, aDcol).cells)
        /\ MeanWithinRounding(aStat.stats.mean, Col(aIn, aDcol).cells)
        /\ DOMAIN aStatR.stats = StatsKeys
        /\ aStatR.stats.count = aStat.stats.count
        /\ aStatR.stats.min = aStat.stats.min
        /\ aStatR.stats.max = aStat.stats.max
        /\ MeanWithinRounding(aStatR.stats.mean, Col(aIn, aDcol).cells)

\* C15 happens: stats of a numeric column with a missing cell, taken for the rows
\* in two orders, have the count of the cells that are not missing, below the
\* number of rows, and means that differ.
StatsOfNumericColumnRoundedWitness ==
    /\ OfNumericColumn
    /\ aStat.raised = ""
    /\ aStat.stats.count < aIn.nrows
    /\ aStat.stats.count > 1
    /\ aStat.stats.min # aStat.stats.max
    /\ aStatR.stats.mean # aStat.stats.mean

\* Row j of aIn matches the value in the column aCol: as text whatever the case
\* for a textual value, as the same number for a numeric one.
Matching(j) ==
    IF aVal.k = "str" THEN TextMatch(Col(aIn, aCol), j, aVal.s)
    ELSE /\ Col(aIn, aCol).cells[j].k = "num"
         /\ Col(aIn, aCol).cells[j].n * aVal.d = aVal.n * Col(aIn, aCol).cells[j].d

\* The cells of the matching rows among the rows j..n, in their order.
RECURSIVE MatchingCells(_, _, _)
MatchingCells(cells, j, n) ==
    IF j > n THEN <<>>
    ELSE (IF Matching(j) THEN <<cells[j]>> ELSE <<>>) \o MatchingCells(cells, j + 1, n)

\* The statistics of a sequence of cells: none when it holds text or is empty.
StatisticsOf(cells) ==
    IF cells = <<>> \/ \E j \in 1..Len(cells) : cells[j].k = "str" THEN NoStats
    ELSE Stats(SeriesMean(cells), SeriesMin(cells), SeriesMax(cells), SeriesCount(cells))

FilteredStatsCalled == apc \in {"filteredstats", "done"}

\* C16: for a table and two columns it has, stats of the filtered table raises
\* nothing, is None when no row matches, and otherwise is the statistics of the
\* second column over the matching rows and no other; the rows (Region, 100),
\* (Region, 150), (LTLA, 50) filtered on 'region' give mean 125, min 100, max 150
\* and count 2.
FilterThenStats ==
    (FilteredStatsCalled /\ aCol \in ColumnNames(aIn) /\ aDcol \in ColumnNames(aIn)) =>
        /\ aStatF.raised = ""
        /\ (\A j \in 1..aIn.nrows : ~Matching(j)) => aStatF.stats = NoStats
        /\ aStatF.stats = StatisticsOf(MatchingCells(Col(aIn, aDcol).cells, 1, aIn.nrows))
        /\ (aIn \in {AnalysisFrame, WholeNumberFrame} /\ aCol = AreaType
              /\ aVal = Str(LowerRegion) /\ aDcol = Y2021) =>
                 aStatF.stats = Stats(Num(125, 1), Num(100, 1), Num(150, 1), 2)

\* C16 happens: the frame of the tests has been filtered on 'region' and the
\* stats of its column 2021 taken, and they are not those of the whole column.
FilterThenStatsWitness ==
    /\ FilteredStatsCalled
    /\ aIn = AnalysisFrame
    /\ aCol = AreaType
    /\ aVal = Str(LowerRegion)
    /\ aDcol = Y2021
    /\ aStatF.stats.count = 2
    /\ aStatF.stats.mean = Num(125, 1)
    /\ aStat.stats.count = 3

---------------------------------------------------------------------------
(* Properties of the Logger, checked under SpecLogger. *)

\* The setup calls that returned.
ReturnedSetups == {k \in 1..Len(lgSetups) : lgSetups[k].raised = ""}

\* The lines of a file; none when the path holds no file.
LinesOf(fsys, path) == IF fsys[path].kind = "file" THEN fsys[path].lines ELSE <<>>

\* The lines the last call added, over every path.
RECURSIVE LinesAdded(_)
LinesAdded(paths) ==
    IF paths = {} THEN 0
    ELSE LET p == CHOOSE x \in paths : TRUE
         IN  Len(LinesOf(lgFs, p)) - Len(LinesOf(lgLast.before, p)) + LinesAdded(paths \ {p})

\* C17: once a setup call has returned, whatever setup calls were made, with the
\* same path or with different ones, the logger has exactly one handler, every
\* setup call that returned has returned the same handle, and a record call
\* adds no more than one line over all files.
SetupIdempotent ==
    ReturnedSetups # {} =>
        /\ Len(lgLogger.handlers) = 1
        /\ \A j, k \in ReturnedSetups : lgSetups[j].handle = lgSetups[k].handle
        /\ lgLast.op = "record" => LinesAdded(LogPaths) <= 1

\* C17 happens: two setup calls with different paths have returned and a record
\* made after them has added one line.
SetupIdempotentWitness ==
    /\ \E j, k \in ReturnedSetups : lgSetups[j].path # lgSetups[k].path
    /\ lgLast.op = "record"
    /\ LinesAdded(LogPaths) = 1

\* s is t with one more element at its end.
Extends(s, t, x) == s = Append(t, x)

\* The entry of the last record call, with the detail when Given holds.
EntryOfLast(Given(_)) ==
    AscTime(lgLast.time) \o <<" - ", "INFO", " - ", "[", lgLast.operation, "]", " ", lgLast.filename>>
        \o (IF Given(lgLast.details) THEN <<" - ", lgLast.details.text>> ELSE <<>>)

\* The last call left every line of every file where it was and, when it is a
\* record call, put one entry, with the detail when Given holds, after the lines
\* of the log file and nothing anywhere else.
AppendedOnly(Given(_)) ==
    /\ \A p \in LogPaths :
          /\ lgLast.before[p].kind = "file" => lgFs[p].kind = "file"
          /\ Len(LinesOf(lgLast.before, p)) <= Len(LinesOf(lgFs, p))
          /\ SubSeq(LinesOf(lgFs, p), 1, Len(LinesOf(lgLast.before, p))) = LinesOf(lgLast.before, p)
    /\ lgLast.op = "setup" => \A p \in LogPaths : LinesOf(lgFs, p) = LinesOf(lgLast.before, p)
    /\ lgLast.op = "record" =>
          /\ Len(lgLogger.handlers) = 1
          /\ \A p \in LogPaths :
                IF p = lgLogger.handlers[1]
                THEN Extends(LinesOf(lgFs, p), LinesOf(lgLast.before, p), EntryOfLast(Given))
                ELSE LinesOf(lgFs, p) = LinesOf(lgLast.before, p)

\* C18, as claimed: every record call adds exactly one entry
\* '<timestamp> - <level> - [<tag>] <subject>', followed by ' - <detail>' exactly
\* when a detail is given, after the earlier entries; over setup and record calls
\* the earlier content of a file stays a prefix of the later content.
AppendOnlyLog ==
    AppendedOnly(DetailGiven)

\* C18, amended: the same, with ' - <detail>' exactly when a detail that is not
\* empty is given.
AppendOnlyLogNonEmptyDetail ==
    LET NonEmpty(details) == details.given /\ details.text # ""
    IN  AppendedOnly(NonEmpty)

\* C18 happens: the log file holds the entry of an earlier process and after it
\* two entries of this one, the first with a detail and the second, just
\* recorded, without; more than one setup call was made.
AppendOnlyLogNonEmptyDetailWitness ==
    /\ lgLast.op = "record"
    /\ lgLast.details = NoDetail
    /\ \E p \in LogPaths :
          /\ Len(LinesOf(lgFs, p)) = 3
          /\ LinesOf(lgFs, p)[1] = EarlierEntry
          /\ Len(LinesOf(lgFs, p)[2]) = Len(LinesOf(lgFs, p)[3]) + 2
    /\ Len(lgSetups) > 1

\* C19, as claimed: a record made through the handle that a setup call returned,
\* whatever setup calls were made before it, adds its line to the file at the
\* path of that setup call.
RecordGoesToSetupPath ==
    lgLast.op = "record" =>
        /\ lgFs[lgSetups[lgLast.via].path].kind = "file"
        /\ Len(LinesOf(lgFs, lgSetups[lgLast.via].path))
              = Len(LinesOf(lgLast.before, lgSetups[lgLast.via].path)) + 1

============================================================================
